---- MODULE Spec2Model ----
(***************************************************************************)
(* State-machine model of the client-side session negotiation in           *)
(* src/src/App.tsx (component App): local media acquisition, matchmaking   *)
(* queue participation, peer-connection negotiation, teardown, text chat.  *)
(*                                                                         *)
(* Scheduling.  The browser runs one handler at a time.  A handler that    *)
(* awaits a promise which is already settled (ensureLocalMedia with a      *)
(* cached stream) continues in a microtask, before any other event is      *)
(* dispatched, so such a continuation is part of the same action.  A       *)
(* handler that awaits the device prompt (getUserMedia) or a transport     *)
(* operation (createOffer, setLocalDescription, ...) is suspended: it is   *)
(* kept in `tasks` and resumed by a later action, and any other event may  *)
(* be handled in between.                                                  *)
(***************************************************************************)
EXTENDS Integers, Sequences, FiniteSets, Bags, TLC

\* ----------------------------------------------------------------- bounds
MaxPc    == 2   \* transports (RTCPeerConnection objects) ever constructed
MaxTasks == 2   \* handlers suspended on an await at the same time
MaxGum   == 2   \* calls of navigator.mediaDevices.getUserMedia
MaxChat  == 1   \* length of the chat sequence
MaxOffersIn == 1 \* inbound offers handled on one transport

\* ----------------------------------------------------------------- values
Roles      == {"caller", "callee"}
QueueInfos == {[position |-> 1, etaSec |-> 5, waitedSec |-> 0]}
Texts      == {<<>>, <<" ">>, <<" ", "a">>}
RemoteTexts == {<<"a">>}

SocketStatus == [connect         |-> "Connected to signaling",
                 welcome         |-> "Connected",
                 reconnected     |-> "Reconnected",
                 waiting         |-> "Waiting for partner...",
                 queue_timeout   |-> "Still waiting... (no partner yet)"]

VARIABLES
    onboardingDone, \* useState onboardingDone: the landing screen was left
    status,         \* useState status
    role,           \* useState role: "none" | "caller" | "callee"
    queueInfo,      \* useState queueInfo: Null or <<a QueueInfo>>
    chat,           \* useState chat: sequence of [text, mine]
    draft,          \* useState draft
    pcRef,          \* pcRef.current: 0 (null) or an index of pcs
    pcs,            \* every RTCPeerConnection constructed so far
    localStream,    \* localStreamRef.current: 0 (null) or a stream id
    gum,            \* number of getUserMedia calls made so far
    tasks,          \* suspended async handlers: a bag of continuations
    phase,          \* the orchestrator state of the design: Idle, Searching, Matched, InCall
    sent,           \* the messages the last step emitted on the socket
    micOn,          \* useState micOn
    camOn,          \* useState camOn
    trackEnabled,   \* enabled flags of the tracks of localStreamRef.current
    socket          \* the socket.io connection: "connecting", "open" or "lost"

vars == <<onboardingDone, status, role, queueInfo, chat, draft, pcRef, pcs,
          localStream, gum, tasks, phase, sent, micOn, camOn, trackEnabled,
          socket>>

\* the state no handler of the session writes
offSession == <<micOn, camOn, trackEnabled, socket>>

\* the tracks of a stream getUserMedia returns are enabled
FreshTracks == [audio |-> TRUE, video |-> TRUE]

\* null of a nullable object (queueInfo)
Null == <<>>

Msg(type, p) == [type |-> type, pc |-> p]

\* ------------------------------------------------------------ pure helpers
RECURSIVE TrimStart(_)
TrimStart(s) == IF s # <<>> /\ Head(s) = " " THEN TrimStart(Tail(s)) ELSE s

RECURSIVE TrimEnd(_)
TrimEnd(s) ==
    IF s # <<>> /\ s[Len(s)] = " " THEN TrimEnd(SubSeq(s, 1, Len(s) - 1)) ELSE s

\* String.prototype.trim
Trim(s) == TrimEnd(TrimStart(s))

Suspend(b, t) == b (+) SetToBag({t})

Finish(b, t) == b (-) SetToBag({t})

\* the handler moves on to its next await
Advance(b, t, at) == Suspend(Finish(b, t), [t EXCEPT !.at = at])

Room == BagCardinality(tasks) < MaxTasks

\* new RTCPeerConnection(ICE_SERVERS): no tracks, no observers, signaling stable
NewPc(creator) ==
    [closed |-> FALSE, hooks |-> FALSE, stream |-> 0, sig |-> "stable",
     negotiated |-> FALSE, creator |-> creator, offers |-> 0, answers |-> 0]

\* pc.localDescription / pc.remoteDescription is set: a pending description of
\* the signaling state, or the current one of a completed offer/answer exchange
HasLocal(pc)  == pc.negotiated \/ pc.sig = "have-local-offer"

HasRemote(pc) == pc.negotiated \/ pc.sig = "have-remote-offer"

\* createPeerConnection after the await: tracks of the stream added, three observers set
OpenPc(pc, stream) == [pc EXCEPT !.stream = stream, !.hooks = TRUE]

\* cleanupPeerConnection on the transport itself: observers nulled, then close().
\* close() ends the negotiation (signalingState "closed") and stops the senders;
\* the descriptions of a closed transport are read by nothing and are forgotten.
ClosePc(pc) ==
    [pc EXCEPT !.hooks = FALSE, !.closed = TRUE, !.sig = "closed",
               !.stream = 0, !.negotiated = FALSE]

Task(kind, at, p, r, stream) ==
    [kind |-> kind, at |-> at, pc |-> p, role |-> r, stream |-> stream]

\* inbound offers handled so far on transport p: answered or still in negotiation
OffersOn(p) ==
    LET on == {t \in BagToSet(tasks) : t.kind = "rtc-offer" /\ t.pc = p}
    IN  pcs[p].answers + BagCardinality([t \in on |-> tasks[t]])

isInCall == role # "none" /\ pcRef # 0

Live == {p \in 1..Len(pcs) : ~pcs[p].closed}

TypeOK ==
    /\ onboardingDone \in BOOLEAN
    /\ micOn \in BOOLEAN /\ camOn \in BOOLEAN
    /\ trackEnabled \in [audio : BOOLEAN, video : BOOLEAN]
    /\ socket \in {"connecting", "open", "lost"}
    /\ role \in Roles \cup {"none"}
    /\ queueInfo \in {Null} \cup {<<q>> : q \in QueueInfos}
    /\ Len(chat) <= MaxChat
    /\ draft \in Texts
    /\ pcRef \in 0..Len(pcs)
    /\ Len(pcs) <= MaxPc
    /\ localStream \in 0..gum
    /\ gum \in 0..MaxGum
    /\ BagCardinality(tasks) <= MaxTasks
    /\ phase \in {"Idle", "Searching", "Matched", "InCall"}

\* ------------------------------------------------------------------- Init
\* After the mount effect ran: socket created, hello emitted, handlers registered.
Init ==
    /\ onboardingDone = FALSE
    /\ status = "Idle"
    /\ role = "none"
    /\ queueInfo = Null
    /\ chat = <<>>
    /\ draft = <<>>
    /\ pcRef = 0
    /\ pcs = <<>>
    /\ localStream = 0
    /\ gum = 0
    /\ tasks = EmptyBag
    /\ phase = "Idle"
    /\ sent = <<Msg("hello", 0)>>
    /\ micOn = TRUE
    /\ camOn = TRUE
    /\ trackEnabled = FreshTracks
    /\ socket = "connecting"

\* ------------------------------------------------------- faulty variants
\* Variants of the component's functions with one fault each; a property about
\* a function is expected to fail when the function is replaced by its variant.

\* cleanupPeerConnection that forgets the transport without closing it
cleanupPeerConnection_DropOnly ==
    /\ pcs' = pcs
    /\ pcRef' = 0
    /\ role' = "none"

\* resetConversationUI that clears the draft only
resetConversationUI_DraftOnly ==
    /\ chat' = chat
    /\ draft' = <<>>

\* ------------------------------------------------- functions of the component
\* cleanupPeerConnection (remoteVideoRef is presentation only)
cleanupPeerConnection ==
    /\ pcs' = IF pcRef # 0 THEN [pcs EXCEPT ![pcRef] = ClosePc(@)] ELSE pcs
    /\ pcRef' = 0
    /\ role' = "none"

resetConversationUI ==
    /\ chat' = <<>>
    /\ draft' = <<>>

\* createPeerConnection, called by handler `kind`; `cont` is the await the
\* handler reaches once the transport is returned ("done" when it has none).
\* With a cached stream the await of ensureLocalMedia is a microtask and the
\* function runs to its end; otherwise getUserMedia is called and the handler
\* is suspended with the transport already stored in pcRef.
createPeerConnection(kind, creator, cont, r) ==
    LET p == Len(pcs) + 1 IN
    /\ Len(pcs) < MaxPc
    /\ pcRef' = p
    /\ localStream' = localStream
    /\ IF localStream # 0
         THEN /\ pcs' = Append(pcs, OpenPc(NewPc(creator), localStream))
              /\ gum' = gum
              /\ IF cont = "done"
                   THEN tasks' = tasks
                   ELSE /\ Room
                        /\ tasks' = Suspend(tasks, Task(kind, cont, p, r, 0))
         ELSE /\ gum < MaxGum
              /\ Room
              /\ pcs' = Append(pcs, NewPc(creator))
              /\ gum' = gum + 1
              /\ tasks' = Suspend(tasks, Task(kind, "gum", p, r, gum + 1))

\* start() after `await ensureLocalMedia()`
startAfterMedia ==
    /\ status' = "Searching match..."
    /\ resetConversationUI
    /\ queueInfo' = Null
    /\ sent' = <<Msg("find", 0)>>
    /\ phase' = "Searching"

\* ------------------------------------------------------------ user intents
\* The landing screen's button: setOnboardingDone(true); start()
Start ==
    /\ ~onboardingDone
    /\ onboardingDone' = TRUE
    /\ UNCHANGED offSession
    /\ IF localStream # 0
         THEN /\ startAfterMedia
              /\ UNCHANGED <<gum, tasks>>
         ELSE /\ gum < MaxGum
              /\ Room
              /\ status' = "Requesting camera..."
              /\ gum' = gum + 1
              /\ tasks' = Suspend(tasks, Task("start", "gum", 0, "none", gum + 1))
              /\ sent' = <<>>
              /\ UNCHANGED <<chat, draft, queueInfo, phase>>
    /\ UNCHANGED <<role, pcRef, pcs, localStream>>

\* getUserMedia resolves for a suspended start()
StartMediaGranted(t) ==
    /\ t.kind = "start" /\ t.at = "gum"
    /\ localStream' = t.stream
    /\ startAfterMedia
    /\ tasks' = Finish(tasks, t)
    /\ trackEnabled' = FreshTracks
    /\ UNCHANGED <<micOn, camOn, socket, onboardingDone, role, pcRef, pcs, gum>>

\* getUserMedia rejects for a suspended start(): the rejection is not caught
StartMediaDenied(t) ==
    /\ t.kind = "start" /\ t.at = "gum"
    /\ tasks' = Finish(tasks, t)
    /\ sent' = <<>>
    /\ UNCHANGED <<offSession, onboardingDone, status, role, queueInfo, chat, draft, pcRef,
                   pcs, localStream, gum, phase>>

\* next() that leaves the queue position on display
next_KeepQueue ==
    /\ onboardingDone
    /\ status' = "Next..."
    /\ cleanupPeerConnection
    /\ resetConversationUI
    /\ queueInfo' = queueInfo
    /\ sent' = <<Msg("next", 0), Msg("find", 0)>>
    /\ phase' = "Searching"
    /\ UNCHANGED <<offSession, onboardingDone, localStream, gum, tasks>>

next ==
    /\ onboardingDone
    /\ status' = "Next..."
    /\ cleanupPeerConnection
    /\ resetConversationUI
    /\ queueInfo' = Null
    /\ sent' = <<Msg("next", 0), Msg("find", 0)>>
    /\ phase' = "Searching"
    /\ UNCHANGED <<offSession, onboardingDone, localStream, gum, tasks>>

stop ==
    /\ onboardingDone
    /\ status' = "Stopped"
    /\ cleanupPeerConnection
    /\ resetConversationUI
    /\ queueInfo' = Null
    /\ sent' = <<Msg("stop", 0)>>
    /\ phase' = "Idle"
    /\ UNCHANGED <<offSession, onboardingDone, localStream, gum, tasks>>

\* toggleMic, the microphone button of the control bar
toggleMic ==
    /\ onboardingDone
    /\ IF localStream = 0
         THEN UNCHANGED <<micOn, trackEnabled>>
         ELSE /\ trackEnabled' = [trackEnabled EXCEPT !.audio = ~micOn]
              /\ micOn' = ~micOn
    /\ sent' = <<>>
    /\ UNCHANGED <<camOn, socket, onboardingDone, status, role, queueInfo, chat,
                   draft, pcRef, pcs, localStream, gum, tasks, phase>>

\* toggleCam that restarts the transport to apply the change
toggleCam_Restart ==
    /\ onboardingDone
    /\ IF localStream = 0
         THEN UNCHANGED <<camOn, trackEnabled>>
         ELSE /\ trackEnabled' = [trackEnabled EXCEPT !.video = ~camOn]
              /\ camOn' = ~camOn
    /\ cleanupPeerConnection
    /\ sent' = <<>>
    /\ UNCHANGED <<micOn, socket, onboardingDone, status, queueInfo, chat,
                   draft, localStream, gum, tasks, phase>>

\* toggleCam, the camera button of the control bar
toggleCam ==
    /\ onboardingDone
    /\ IF localStream = 0
         THEN UNCHANGED <<camOn, trackEnabled>>
         ELSE /\ trackEnabled' = [trackEnabled EXCEPT !.video = ~camOn]
              /\ camOn' = ~camOn
    /\ sent' = <<>>
    /\ UNCHANGED <<micOn, socket, onboardingDone, status, role, queueInfo, chat,
                   draft, pcRef, pcs, localStream, gum, tasks, phase>>

\* typing in the chat input (disabled unless isInCall)
SetDraft(t) ==
    /\ onboardingDone /\ isInCall
    /\ draft' = t
    /\ sent' = <<>>
    /\ UNCHANGED <<offSession, onboardingDone, status, role, queueInfo, chat, pcRef, pcs,
                   localStream, gum, tasks, phase>>

\* sendChat, reachable through the send button / Enter (disabled unless isInCall)
sendChat ==
    /\ onboardingDone /\ isInCall
    /\ IF Trim(draft) = <<>>
         THEN /\ sent' = <<>>
              /\ UNCHANGED <<chat, draft>>
         ELSE /\ Len(chat) < MaxChat
              /\ sent' = <<[type |-> "chat-message", pc |-> 0, text |-> Trim(draft)]>>
              /\ chat' = Append(chat, [text |-> Trim(draft), mine |-> TRUE])
              /\ draft' = <<>>
    /\ UNCHANGED <<offSession, onboardingDone, status, role, queueInfo, pcRef, pcs,
                   localStream, gum, tasks, phase>>

\* -------------------------------------------------- inbound socket events
\* connect, welcome, reconnected, waiting, queue-timeout: status only
SocketEvent(e) ==
    /\ IF e = "connect"
         THEN socket # "open" /\ socket' = "open"
         ELSE socket' = socket
    /\ status' = SocketStatus[e]
    /\ sent' = <<>>
    /\ UNCHANGED <<micOn, camOn, trackEnabled, onboardingDone, role, queueInfo,
                   chat, draft, pcRef, pcs, localStream, gum, tasks, phase>>

\* the connection drops; socket.io reconnects by itself (reconnection is on by
\* default) and the component registers no handler for the drop
SocketLost ==
    /\ socket = "open"
    /\ socket' = "lost"
    /\ sent' = <<>>
    /\ UNCHANGED <<micOn, camOn, trackEnabled, onboardingDone, status, role,
                   queueInfo, chat, draft, pcRef, pcs, localStream, gum, tasks,
                   phase>>

OnQueueStatus(info) ==
    /\ queueInfo' = <<info>>
    /\ sent' = <<>>
    /\ UNCHANGED <<offSession, onboardingDone, status, role, chat, draft, pcRef, pcs,
                   localStream, gum, tasks, phase>>

\* reset handled as partner-left is: the client re-enters the queue
OnReset_Requeue ==
    /\ status' = "Reset"
    /\ cleanupPeerConnection
    /\ resetConversationUI
    /\ sent' = <<Msg("find", 0)>>
    /\ phase' = "Searching"
    /\ UNCHANGED <<offSession, onboardingDone, queueInfo, localStream, gum, tasks>>

\* matched handler that negotiates an offer whatever the role
OnMatched_AlwaysOffer(r) ==
    /\ role' = r
    /\ queueInfo' = Null
    /\ resetConversationUI
    /\ status' = IF r = "caller" THEN "Matched as caller" ELSE "Matched as callee"
    /\ createPeerConnection("matched", r, "createOffer", "caller")
    /\ phase' = "Matched"
    /\ sent' = <<>>
    /\ UNCHANGED <<offSession, onboardingDone>>

MatchedStatus(r) == IF r = "caller" THEN "Matched as caller" ELSE "Matched as callee"

OnMatched(r) ==
    /\ role' = r
    /\ queueInfo' = Null
    /\ resetConversationUI
    /\ status' = MatchedStatus(r)
    /\ createPeerConnection("matched", r,
                            IF r = "caller" THEN "createOffer" ELSE "done", r)
    /\ phase' = "Matched"
    /\ sent' = <<>>
    /\ UNCHANGED <<offSession, onboardingDone>>

OnPartnerLeft ==
    /\ status' = "Partner left. Waiting..."
    /\ cleanupPeerConnection
    /\ resetConversationUI
    /\ sent' = <<Msg("find", 0)>>
    /\ phase' = "Searching"
    /\ UNCHANGED <<offSession, onboardingDone, queueInfo, localStream, gum, tasks>>

OnReset ==
    /\ status' = "Reset"
    /\ cleanupPeerConnection
    /\ resetConversationUI
    /\ sent' = <<>>
    /\ phase' = "Idle"
    /\ UNCHANGED <<offSession, onboardingDone, queueInfo, localStream, gum, tasks>>

OnChatMessage(t) ==
    /\ Len(chat) < MaxChat
    /\ chat' = Append(chat, [text |-> t, mine |-> FALSE])
    /\ sent' = <<>>
    /\ UNCHANGED <<offSession, onboardingDone, status, role, queueInfo, draft, pcRef, pcs,
                   localStream, gum, tasks, phase>>

\* rtc-offer: pcRef.current ?? (await createPeerConnection()), then the handler
\* is suspended on setRemoteDescription
OnRtcOffer ==
    /\ IF pcRef # 0
         THEN /\ Room
              /\ OffersOn(pcRef) < MaxOffersIn
              /\ tasks' = Suspend(tasks, Task("rtc-offer", "setRemoteOffer", pcRef, "none", 0))
              /\ UNCHANGED <<pcRef, pcs, localStream, gum>>
         ELSE createPeerConnection("rtc-offer", "rtc-offer", "setRemoteOffer", "none")
    /\ sent' = <<>>
    /\ UNCHANGED <<offSession, onboardingDone, status, role, queueInfo, chat, draft, phase>>

OnRtcAnswer ==
    /\ IF pcRef # 0
         THEN /\ Room
              /\ tasks' = Suspend(tasks, Task("rtc-answer", "setRemoteAnswer", pcRef, "none", 0))
         ELSE tasks' = tasks
    /\ sent' = <<>>
    /\ UNCHANGED <<offSession, onboardingDone, status, role, queueInfo, chat, draft, pcRef,
                   pcs, localStream, gum, phase>>

\* rtc-ice: returns when there is no transport, otherwise the handler is
\* suspended on pc.addIceCandidate inside its try block
OnRtcIce ==
    /\ IF pcRef # 0
         THEN /\ Room
              /\ tasks' = Suspend(tasks, Task("rtc-ice", "addIce", pcRef, "none", 0))
         ELSE tasks' = tasks
    /\ sent' = <<>>
    /\ UNCHANGED <<offSession, onboardingDone, status, role, queueInfo, chat,
                   draft, pcRef, pcs, localStream, gum, phase>>

\* ------------------------------------- resumption of suspended handlers
\* createPeerConnection resuming without regard to a teardown: the tracks are
\* added and the observers set on a transport that was closed meanwhile
OpenMediaGranted_OnClosed(t) ==
    /\ t.kind \in {"matched", "rtc-offer"} /\ t.at = "gum"
    /\ localStream' = t.stream
    /\ trackEnabled' = FreshTracks
    /\ pcs' = [pcs EXCEPT ![t.pc] = OpenPc(@, t.stream)]
    /\ tasks' = Finish(tasks, t)
    /\ sent' = <<>>
    /\ UNCHANGED <<micOn, camOn, socket, onboardingDone, status, role, queueInfo,
                   chat, draft, pcRef, gum, phase>>

\* getUserMedia resolves inside createPeerConnection: ensureLocalMedia caches the
\* stream, addTrack throws InvalidStateError on a closed transport (the handler
\* ends there), otherwise the tracks are added and the observers set.
OpenMediaGranted(t) ==
    /\ t.kind \in {"matched", "rtc-offer"} /\ t.at = "gum"
    /\ localStream' = t.stream
    /\ trackEnabled' = FreshTracks
    /\ IF pcs[t.pc].closed
         THEN /\ tasks' = Finish(tasks, t)
              /\ pcs' = pcs
         ELSE /\ pcs' = [pcs EXCEPT ![t.pc] = OpenPc(@, t.stream)]
              /\ tasks' = IF t.kind = "rtc-offer"
                            THEN Advance(tasks, t, "setRemoteOffer")
                          ELSE IF t.role = "caller"
                            THEN Advance(tasks, t, "createOffer")
                          ELSE Finish(tasks, t)
    /\ sent' = <<>>
    /\ UNCHANGED <<micOn, camOn, socket, onboardingDone, status, role, queueInfo, chat, draft, pcRef,
                   gum, phase>>

\* getUserMedia rejects inside createPeerConnection: the handler ends, uncaught
OpenMediaDenied(t) ==
    /\ t.kind \in {"matched", "rtc-offer"} /\ t.at = "gum"
    /\ tasks' = Finish(tasks, t)
    /\ sent' = <<>>
    /\ UNCHANGED <<offSession, onboardingDone, status, role, queueInfo, chat, draft, pcRef,
                   pcs, localStream, gum, phase>>

\* The outcomes of the transport operation a handler awaits, by RTCPeerConnection's
\* signaling state machine.  A received description may be malformed, so committing
\* it may fail in any state; setRemoteDescription(offer) against a pending local
\* offer succeeds only where the browser rolls the local offer back.
OpOutcomes(t) ==
    LET sig == pcs[t.pc].sig IN
    CASE t.at = "createOffer"      -> {TRUE}
      [] t.at = "setLocalOffer"    -> {sig \in {"stable", "have-local-offer"}}
      [] t.at = "setRemoteOffer"   -> {FALSE} \cup
            (IF sig \in {"stable", "have-remote-offer", "have-local-offer"}
               THEN {TRUE} ELSE {})
      [] t.at = "createAnswer"     -> {sig = "have-remote-offer"}
      [] t.at = "setLocalAnswer"   -> {sig = "have-remote-offer"}
      [] t.at = "setRemoteAnswer"  -> {FALSE} \cup
            (IF sig = "have-local-offer" THEN {TRUE} ELSE {})
      [] OTHER                     -> {}

Awaiting(t, kind, at) ==
    /\ t.kind = kind /\ t.at = at
    /\ ~pcs[t.pc].closed
    /\ TRUE \in OpOutcomes(t)

Quiet == UNCHANGED <<offSession, onboardingDone, status, role, queueInfo, chat, draft, pcRef,
                     localStream, gum, phase>>

\* matched (caller): pc.createOffer() resolved, setLocalDescription(offer) called
MatchedOfferCreated(t) ==
    /\ Awaiting(t, "matched", "createOffer")
    /\ tasks' = Advance(tasks, t, "setLocalOffer")
    /\ sent' = <<>>
    /\ pcs' = pcs
    /\ Quiet

\* matched (caller): setLocalDescription(offer) resolved, rtc-offer emitted
MatchedOfferCommitted(t) ==
    /\ Awaiting(t, "matched", "setLocalOffer")
    /\ pcs' = [pcs EXCEPT ![t.pc] = [@ EXCEPT !.sig = "have-local-offer",
                                             !.offers = @ + 1]]
    /\ tasks' = Finish(tasks, t)
    /\ sent' = <<Msg("rtc-offer", t.pc)>>
    /\ Quiet

\* rtc-offer: setRemoteDescription(offer) resolved, createAnswer() called
OfferRemoteCommitted(t) ==
    /\ Awaiting(t, "rtc-offer", "setRemoteOffer")
    /\ pcs' = [pcs EXCEPT ![t.pc] = [@ EXCEPT !.sig = "have-remote-offer"]]
    /\ tasks' = Advance(tasks, t, "createAnswer")
    /\ sent' = <<>>
    /\ Quiet

\* rtc-offer: createAnswer() resolved, setLocalDescription(answer) called
OfferAnswerCreated(t) ==
    /\ Awaiting(t, "rtc-offer", "createAnswer")
    /\ tasks' = Advance(tasks, t, "setLocalAnswer")
    /\ sent' = <<>>
    /\ pcs' = pcs
    /\ Quiet

\* rtc-offer: setLocalDescription(answer) resolved, rtc-answer emitted
OfferAnswerCommitted(t) ==
    /\ Awaiting(t, "rtc-offer", "setLocalAnswer")
    /\ pcs' = [pcs EXCEPT ![t.pc] = [@ EXCEPT !.sig = "stable",
                                             !.negotiated = TRUE,
                                             !.answers = @ + 1]]
    /\ tasks' = Finish(tasks, t)
    /\ sent' = <<Msg("rtc-answer", t.pc)>>
    /\ Quiet

\* rtc-answer: setRemoteDescription(answer) resolved
AnswerRemoteCommitted(t) ==
    /\ Awaiting(t, "rtc-answer", "setRemoteAnswer")
    /\ pcs' = [pcs EXCEPT ![t.pc] = [@ EXCEPT !.sig = "stable", !.negotiated = TRUE]]
    /\ tasks' = Finish(tasks, t)
    /\ sent' = <<>>
    /\ Quiet

\* the awaited transport operation rejects: the handler ends, uncaught
PcOpRejected(t) ==
    /\ t.at \notin {"gum", "addIce"}
    /\ ~pcs[t.pc].closed
    /\ FALSE \in OpOutcomes(t)
    /\ tasks' = Finish(tasks, t)
    /\ sent' = <<>>
    /\ pcs' = pcs
    /\ Quiet

\* the transport was closed under the awaited operation: its promise is
\* rejected or never settles, and in both cases the handler runs no further
PcOpAbandoned(t) ==
    /\ t.at \notin {"gum", "addIce"}
    /\ pcs[t.pc].closed
    /\ tasks' = Finish(tasks, t)
    /\ sent' = <<>>
    /\ pcs' = pcs
    /\ Quiet

\* rtc-ice: addIceCandidate resolved, which takes a remote description; the
\* handler ends
IceApplied(t) ==
    /\ t.kind = "rtc-ice" /\ t.at = "addIce"
    /\ ~pcs[t.pc].closed
    /\ HasRemote(pcs[t.pc])
    /\ tasks' = Finish(tasks, t)
    /\ sent' = <<>>
    /\ pcs' = pcs
    /\ Quiet

\* rtc-ice with a teardown in the catch block
IceDiscarded_TearDown(t) ==
    /\ t.kind = "rtc-ice" /\ t.at = "addIce"
    /\ tasks' = Finish(tasks, t)
    /\ sent' = <<>>
    /\ cleanupPeerConnection
    /\ status' = "ICE failed"
    /\ UNCHANGED <<offSession, onboardingDone, queueInfo, chat, draft,
                   localStream, gum, phase>>

\* rtc-ice: addIceCandidate rejected (no remote description yet, the transport
\* closed, or a malformed candidate); the empty catch block swallows it
IceDiscarded(t) ==
    /\ t.kind = "rtc-ice" /\ t.at = "addIce"
    /\ tasks' = Finish(tasks, t)
    /\ sent' = <<>>
    /\ pcs' = pcs
    /\ Quiet

\* --------------------------------------------- events of a transport
RtcStatus == [connecting |-> "RTC: connecting", connected |-> "RTC: connected",
              disconnected |-> "RTC: disconnected", failed |-> "RTC: failed"]

\* connectionstatechange on transport p, fired once both descriptions are set:
\* the observer shows pc.connectionState as the status
ConnectionStateChange(p, s) ==
    /\ ~pcs[p].closed
    /\ pcs[p].hooks
    /\ HasLocal(pcs[p]) /\ HasRemote(pcs[p])
    /\ status' = RtcStatus[s]
    /\ phase' = IF s = "connected" /\ phase = "Matched" THEN "InCall" ELSE phase
    /\ sent' = <<>>
    /\ UNCHANGED <<offSession, onboardingDone, role, queueInfo, chat, draft, pcRef, pcs,
                   localStream, gum, tasks>>

\* icecandidate on transport p: its observer forwards the candidate
IceCandidate(p) ==
    /\ ~pcs[p].closed
    /\ pcs[p].hooks
    /\ HasLocal(pcs[p])
    /\ sent' = <<Msg("rtc-ice", p)>>
    /\ UNCHANGED <<offSession, onboardingDone, status, role, queueInfo, chat, draft, pcRef, pcs,
                   localStream, gum, tasks, phase>>

\* ------------------------------------------------------------------ Next
\* user intents start / next / stop
Intent == Start \/ next \/ stop

\* inbound matchmaking and negotiation events
Signaling ==
    \/ \E r \in Roles : OnMatched(r)
    \/ OnPartnerLeft
    \/ OnReset
    \/ OnRtcOffer
    \/ OnRtcAnswer
    \/ OnRtcIce

\* a suspended handler is resumed, or ended, by the promise it awaits
Resume ==
    \/ \E t \in BagToSet(tasks) : StartMediaGranted(t)
    \/ \E t \in BagToSet(tasks) : StartMediaDenied(t)
    \/ \E t \in BagToSet(tasks) : OpenMediaGranted(t)
    \/ \E t \in BagToSet(tasks) : OpenMediaDenied(t)
    \/ \E t \in BagToSet(tasks) : MatchedOfferCreated(t)
    \/ \E t \in BagToSet(tasks) : MatchedOfferCommitted(t)
    \/ \E t \in BagToSet(tasks) : OfferRemoteCommitted(t)
    \/ \E t \in BagToSet(tasks) : OfferAnswerCreated(t)
    \/ \E t \in BagToSet(tasks) : OfferAnswerCommitted(t)
    \/ \E t \in BagToSet(tasks) : AnswerRemoteCommitted(t)
    \/ \E t \in BagToSet(tasks) : PcOpRejected(t)
    \/ \E t \in BagToSet(tasks) : PcOpAbandoned(t)
    \/ \E t \in BagToSet(tasks) : IceApplied(t)
    \/ \E t \in BagToSet(tasks) : IceDiscarded(t)

\* events a transport fires on its observers
Transport ==
    \/ \E p \in 1..Len(pcs) : \E s \in DOMAIN RtcStatus : ConnectionStateChange(p, s)
    \/ \E p \in 1..Len(pcs) : IceCandidate(p)

\* the text side-channel
Chat ==
    \/ \E t \in Texts : SetDraft(t)
    \/ sendChat
    \/ \E t \in RemoteTexts : OnChatMessage(t)

\* queue updates
Queue == \E info \in QueueInfos : OnQueueStatus(info)

\* the status-only events of the socket
Socket ==
    \/ \E e \in DOMAIN SocketStatus : SocketEvent(e)
    \/ SocketLost

\* the enablement toggles of the control bar
Media == toggleMic \/ toggleCam

Session == Intent \/ Signaling \/ Resume

Next == Session \/ Transport \/ Chat \/ Queue \/ Socket \/ Media

Spec == Init /\ [][Next]_vars

(***************************************************************************)
(* The actions of Transport, Chat, Queue, Socket and Media observe the     *)
(* session: Chat writes chat, draft and sent, Queue writes queueInfo and   *)
(* sent, Socket writes status, socket and sent, Transport writes status,   *)
(* phase and sent, Media writes micOn, camOn, trackEnabled and sent, and   *)
(* no guard of an action of Session reads one of those variables.  A       *)
(* property over the variables of Session and of one observer holds of     *)
(* Spec iff it holds of the session composed with that observer alone,     *)
(* which is what the specifications below check.                           *)
(***************************************************************************)
SpecTransport == Init /\ [][Session \/ Transport]_vars

SpecChat == Init /\ [][Session \/ Chat]_vars

SpecQueue == Init /\ [][Session \/ Queue]_vars

SpecSocket == Init /\ [][Session \/ Socket]_vars

SpecMedia == Init /\ [][Session \/ Media]_vars

\* the session observed by the text side-channel and the queue updates together
SpecChatQueue == Init /\ [][Session \/ Chat \/ Queue]_vars

\* ================================================================ claims
Emits(msgs, type) == \E i \in 1..Len(msgs) : msgs[i].type = type

\* The Session of the design: the transport pcRef holds, which is not closed
SessionExists == pcRef # 0 /\ ~pcs[pcRef].closed

\* C1: at most one transport that was created and not yet closed exists at any
\* instant, and it is the one the session reference holds: no transport is
\* dropped from the reference without having been closed.
C1_AtMostOneLiveTransport ==
    /\ Cardinality(Live) <= 1
    /\ \A p \in Live : pcRef = p

\* C2: queueInfo is non-null only while the machine is Searching.
C2_QueueOnlyWhileSearching == queueInfo # Null => phase = "Searching"

\* C4: the chat sequence is non-empty only if a Session whose transport is not
\* closed exists.
C4_ChatOnlyWithSession == chat # <<>> => SessionExists

\* C3: the chat sequence is empty right after each Session boundary transition:
\* the step of start() that emits find, next(), stop(), the matched handler,
\* partner-left and reset.
C3_Boundary ==
    \/ Start /\ Emits(sent', "find")
    \/ \E t \in BagToSet(tasks) : StartMediaGranted(t)
    \/ next
    \/ stop
    \/ \E r \in Roles : OnMatched(r)
    \/ OnPartnerLeft
    \/ OnReset

C3_ChatEmptyAfterBoundary == [][C3_Boundary => chat' = <<>>]_vars

\* next() has just run on a Session that had answered an offer
C3_Witness ==
    /\ status = "Next..." /\ sent = <<Msg("next", 0), Msg("find", 0)>>
    /\ chat = <<>>
    /\ \E p \in 1..Len(pcs) : pcs[p].closed /\ pcs[p].answers = 1

\* C5: partner-left received while a Session exists closes the transport, clears
\* the session reference and the role, clears the chat, makes the state
\* Searching and emits exactly one find.
C5_PartnerLeftRequeues ==
    [][OnPartnerLeft /\ SessionExists =>
          /\ pcs'[pcRef].closed /\ ~pcs'[pcRef].hooks
          /\ pcRef' = 0 /\ role' = "none"
          /\ chat' = <<>>
          /\ phase' = "Searching"
          /\ sent' = <<Msg("find", 0)>>]_vars

C5_Witness ==
    /\ status = "Partner left. Waiting..." /\ sent = <<Msg("find", 0)>>
    /\ phase = "Searching" /\ pcRef = 0 /\ role = "none"
    /\ \E p \in 1..Len(pcs) : pcs[p].closed /\ pcs[p].offers = 1

C7_StopIsFinal ==
    /\ [][stop => /\ pcRef' = 0 /\ role' = "none"
                  /\ chat' = <<>> /\ queueInfo' = Null
                  /\ sent' = <<Msg("stop", 0)>>
                  /\ phase' = "Idle"]_vars
    /\ [][status = "Stopped" /\ Resume =>
              /\ ~Emits(sent', "find")
              /\ ~Emits(sent', "rtc-offer")
              /\ ~Emits(sent', "rtc-answer")
              /\ Len(pcs') = Len(pcs)
              /\ phase' = "Idle"]_vars

\* C8: when the media acquisition of start() fails, the failure is reported as
\* the visible status (the progress message does not stay), the state remains
\* as it was and no find is emitted.
C8_MediaErrorReported ==
    [][(\E t \in BagToSet(tasks) : StartMediaDenied(t)) =>
          /\ status' # "Requesting camera..."
          /\ phase' = phase
          /\ sent' = <<>>]_vars

\* C9: a Session emits at most one offer; it emits one only if its match gave
\* the role caller, and only in the step that commits the offer as its local
\* description; the caller's handler emits exactly that one message when its
\* negotiation completes.  A callee's Session emits no offer.
C9_Inv ==
    \A p \in 1..Len(pcs) :
        /\ pcs[p].offers <= 1
        /\ pcs[p].creator # "caller" => pcs[p].offers = 0

C9_Step ==
    /\ \A p \in 1..Len(pcs) :
          pcs'[p].offers # pcs[p].offers =>
              /\ pcs[p].offers = 0
              /\ pcs'[p].sig = "have-local-offer"
              /\ sent' = <<Msg("rtc-offer", p)>>
    /\ Emits(sent', "rtc-offer") =>
          \E p \in 1..Len(pcs) :
              /\ sent' = <<Msg("rtc-offer", p)>>
              /\ pcs[p].creator = "caller"
              /\ pcs[p].offers = 0 /\ pcs'[p].offers = 1

C10_AnswerOnSessionTransport ==
    \A p \in Live :
        pcs[p].creator = "rtc-offer" /\ pcs[p].answers > 0 /\ role = "callee"
            => pcRef = p

\* C11: next() and stop() called when no Session exists are enabled (they raise
\* no error), create and close no transport, and leave the session reference,
\* role, chat and queue empty whatever they were before, so that a repeated
\* call finds and leaves the same empty values.
C11_Empty == pcRef = 0 /\ role = "none" /\ chat = <<>> /\ queueInfo = Null

C11_IdempotentWithoutSession ==
    /\ [](onboardingDone => ENABLED next /\ ENABLED stop)
    /\ [][(next \/ stop) /\ pcRef = 0 => C11_Empty' /\ pcs' = pcs]_vars
    /\ [][(next \/ stop) /\ C11_Empty => UNCHANGED <<pcRef, role, chat, queueInfo, pcs>>]_vars

\* next() has just run and no transport was ever created
C11_Witness ==
    /\ status = "Next..."
    /\ sent = <<Msg("next", 0), Msg("find", 0)>>
    /\ C11_Empty
    /\ pcs = <<>>

\* C12: next() called while no Session exists emits find and nothing else; no
\* next (voluntary leave) message is emitted.
C12_NextWithoutSessionOnlyFinds ==
    [][next /\ pcRef = 0 => sent' = <<Msg("find", 0)>>]_vars

\* C15: when committing an inbound offer or answer fails, the failure is
\* recorded as a status, the Session is torn down (transport closed, session
\* reference and role cleared) and the machine returns to Searching.
C15_CommitFailed ==
    \E t \in BagToSet(tasks) :
        /\ t.at \in {"setRemoteOffer", "setRemoteAnswer"}
        /\ PcOpRejected(t)

C15_NegotiationErrorTearsDown ==
    [][C15_CommitFailed =>
          /\ status' # status
          /\ pcRef' = 0 /\ role' = "none"
          /\ \A p \in 1..Len(pcs) : pcs'[p].closed
          /\ phase' = "Searching"]_vars

\* C16: a transport created for a match with role caller never commits an
\* inbound offer as its remote description and never emits an answer.
C16_CallerIgnoresOffer ==
    \A p \in 1..Len(pcs) :
        pcs[p].creator = "caller" =>
            /\ pcs[p].answers = 0
            /\ pcs[p].sig # "have-remote-offer"

\* C18: the device acquisition is invoked at most once unless it failed: never
\* is a call of getUserMedia pending while a stream is cached or another call
\* is pending, and all transports carry the same stream.
\* Calls of getUserMedia not yet settled (each carries its own stream id)
C18_PendingGum == Cardinality({t \in BagToSet(tasks) : t.at = "gum"})

C18_MediaAcquiredOnce ==
    /\ C18_PendingGum + (IF localStream # 0 THEN 1 ELSE 0) <= 1
    /\ \A p, q \in 1..Len(pcs) :
          pcs[p].stream # 0 /\ pcs[q].stream # 0 => pcs[p].stream = pcs[q].stream

\* C20: the role and the transport agree: while the session reference holds a
\* transport the role is caller or callee, and while it holds none the role is
\* none.
C20_RoleAgreesWithTransport ==
    /\ pcRef # 0 => role \in Roles
    /\ pcRef = 0 => role = "none"

\* C13: toggleMic and toggleCam leave the Session as it is: the session
\* reference, the role and every transport (its connection and signaling state,
\* open or closed) are unchanged, no transport is created, nothing is emitted.
C13_TogglesLeaveSession ==
    [][toggleMic \/ toggleCam =>
          /\ UNCHANGED <<pcRef, role, pcs, tasks, phase>>
          /\ sent' = <<>>]_vars

\* both toggles have acted during a Session: microphone and camera are off
C13_Witness ==
    /\ ~micOn /\ ~trackEnabled.audio
    /\ ~camOn /\ ~trackEnabled.video
    /\ SessionExists /\ role \in Roles
    /\ pcs[pcRef].stream = localStream
    /\ sent = <<>>

\* C14: every opening of the signaling connection comes with a hello: the first
\* one with the hello the mount effect emits, each reopening after a drop with
\* a hello emitted when the connection reopens.
C14_HelloOnEveryOpen ==
    [][socket = "lost" /\ socket' = "open" => Emits(sent', "hello")]_vars

\* C17: an inbound candidate that cannot be applied is discarded silently: the
\* handler, whether its addIceCandidate resolves or rejects, leaves the Session,
\* status, role, chat and queue as they are and emits nothing; a candidate
\* received while no transport exists creates none and suspends no handler.
C17_IceStep ==
    \/ OnRtcIce
    \/ \E t \in BagToSet(tasks) : IceDiscarded(t)
    \/ \E t \in BagToSet(tasks) : IceApplied(t)

C17_CandidateSwallowed ==
    /\ [][C17_IceStep =>
            /\ UNCHANGED <<pcRef, pcs, status, role, chat, queueInfo, phase>>
            /\ sent' = <<>>]_vars
    /\ [][OnRtcIce /\ pcRef = 0 => tasks' = tasks]_vars

\* a candidate arrived for the Session's transport before its remote
\* description was committed, and the handler is in addIceCandidate
C17_Witness ==
    \E t \in BagToSet(tasks) :
        /\ t.kind = "rtc-ice"
        /\ t.pc = pcRef
        /\ ~pcs[t.pc].closed
        /\ ~HasRemote(pcs[t.pc])
        /\ role \in Roles

\* C19: a matched or rtc-offer handler resumed after a teardown closed its
\* transport is a no-op: it emits nothing, leaves status, role and the session
\* reference as they are and does not touch the closed transport (no observer
\* is attached again); and no message is ever emitted for a closed transport.
C19_Superseded(t) ==
    /\ t.kind \in {"matched", "rtc-offer"}
    /\ pcs[t.pc].closed

C19_Resumed(t) ==
    \/ OpenMediaGranted(t) \/ OpenMediaDenied(t)
    \/ MatchedOfferCreated(t) \/ MatchedOfferCommitted(t)
    \/ OfferRemoteCommitted(t) \/ OfferAnswerCreated(t) \/ OfferAnswerCommitted(t)
    \/ PcOpRejected(t) \/ PcOpAbandoned(t)

C19_SupersededHandlerNoOp ==
    /\ [][\A t \in BagToSet(tasks) :
            C19_Superseded(t) /\ C19_Resumed(t) =>
                /\ sent' = <<>>
                /\ UNCHANGED <<status, role, pcRef, pcs, phase>>
                /\ tasks' = Finish(tasks, t)]_vars
    /\ [][\A i \in 1..Len(sent') :
            sent'[i].pc # 0 => ~pcs[sent'[i].pc].closed /\ ~pcs'[sent'[i].pc].closed]_vars

\* a handler is suspended for a transport a teardown closed, and a new match
\* has created the transport of a new Session
C19_Witness ==
    \E t \in BagToSet(tasks) :
        /\ C19_Superseded(t)
        /\ pcRef # 0 /\ pcRef # t.pc
        /\ ~pcs[pcRef].closed
        /\ role \in Roles

====
